---- MODULE Spec2Model ----
(***************************************************************************)
(* Playback engine of PaperReader-AI: Audio.speak (the per-document tick   *)
(* loop), Audio._play_all_papers_async (the playlist runner) and the       *)
(* pygame.mixer.music device they drive, with the two multiprocessing      *)
(* queues audio_command_queue (controller -> engine) and status_update     *)
(* (engine -> controller), and the log_queue of text lines.                *)
(*                                                                         *)
(* Time is in milliseconds.  seek_offset and duration, floats of seconds   *)
(* in the source, are kept in milliseconds, so that                        *)
(* get_current_position = seek_offset + get_pos()/1000 is the integer sum  *)
(* seek_offset + get_pos.  Time passes only in the awaited sleeps; the     *)
(* code between two sleeps is taken to run in no time.                     *)
(***************************************************************************)
EXTENDS Integers, Sequences, FiniteSets, TLC

\* ------------------------------------------------------------------ bounds
MaxPapers == 2      \* longest playlist
MaxCmds == 2        \* commands the controller puts during one run
MaxClicks == 4      \* button and slider presses of the user, with the controller
MaxUIPapers == 1    \* longest playlist, with the controller

\* ------------------------------------------------------- program constants
TickMs == 200       \* await asyncio.sleep(0.2)
NotPlayingPos == -1 \* pygame.mixer.music.get_pos() when no music is playing
InitialSeekOffset == 0 \* self.seek_offset = 0.0
GapMs == 1000       \* await asyncio.sleep(1)

\* durations (ms) the synthesis may give a document; neither is a multiple of
\* the tick period, so a track never ends exactly on a tick
Durations == {300, 500}

\* payloads of the seek commands put on the channel, as written after "seek:"
SeekPayloads == {"0", "0.2", "-0.2", "abc"}

\* what the slider gives: f"seek:{self.slider.get()}", a number from 0 up
SliderPayloads == {"0", "0.2"}

NoSeek == "none"

\* the Pause in force: the position reported when it was applied, and whether
\* a seek has been applied since
PauseMark(e, seeked) == [set |-> TRUE, at |-> e, seeked |-> seeked]
NoPause == [set |-> FALSE, at |-> 0, seeked |-> FALSE]

\* a file of the temp directory: the run and the document it was made for
TempFile(r, k) == [run |-> r, doc |-> k]

EmptyMap == [x \in {} |-> 0]

\* a ToolManager call: the method, its argument (a tool id or a name), what it
\* returned or raised, whether the tool's cleanup() raised in it; seq tells
\* one call from the next
Call(op, arg, result, raised, seq) ==
    [op |-> op, arg |-> arg, result |-> result, raised |-> raised, seq |-> seq]
NoCall == Call("none", "", "none", FALSE, 0)

VARIABLES
    papers,               \* number of documents of the playlist
    i,                    \* index of the for loop of _play_all_papers_async
    pc,                   \* position of the worker
    is_paused,            \* Audio.is_paused
    seek_offset,          \* Audio.seek_offset (ms)
    duration,             \* Audio.duration (ms), 0 for None
    music,                \* pygame.mixer.music
    audio_command_queue,  \* controller -> engine
    status_update,        \* engine -> controller: progress dictionaries
    log_queue,            \* engine -> controller: text lines
    sent,                 \* commands put so far (bounded by MaxCmds)
    \* history variables
    trace,                \* every message put on status_update, with its document
    outcome,              \* how each document's loop exited
    cmd_step,             \* the last command step: command taken, branch run, commands left
    fresh,                \* the tick loop of document i has not run an iteration yet
    seek_mark,            \* target of a seek applied since the last Tick
    synth_log,            \* documents synthesized, in order
    load_log,             \* documents loaded and played, in order
    pause_mark,           \* the Pause applied to this document and not resumed since
    seek_sent,            \* a seek command was put on the channel in this run
    pause_open,           \* a Pause was put and no Resume, SeekTo or Stop has been put after it
    put_doc,              \* for each command on the channel, its mark (see PutDuring)
    temp_files,           \* files in the directory temp_audio_Daily_Reader
    \* the controller (UI)
    audio_state,          \* UI.audio_state
    slider_dragging,      \* UI.slider_dragging
    slider_pressed,       \* the mouse button is held down on the slider
    process,              \* UI.process: the worker process
    window,               \* the Tk root window exists
    runs,                 \* workers started so far
    clicks,               \* button and slider presses so far (bounded by MaxClicks)
    \* the tool registry (ToolManager)
    _tools,               \* ToolManager._tools: name -> tool instance
    _categories,          \* ToolManager._categories: category -> list of names
    tm_call,              \* the last ToolManager call and what it returned or raised
    registered            \* names registered and not unregistered since, with the instance

engineVars == <<is_paused, seek_offset, duration>>
histVars == <<trace, outcome, cmd_step, fresh, seek_mark, synth_log, load_log>>
uiVars == <<audio_state, slider_dragging, slider_pressed, process, window, runs, clicks>>
toolVars == <<_tools, _categories, tm_call, registered>>
vars == <<papers, i, pc, is_paused, seek_offset, duration, music,
          audio_command_queue, status_update, log_queue, sent,
          trace, outcome, cmd_step, fresh, seek_mark, synth_log, load_log,
          pause_mark, seek_sent, pause_open, put_doc, temp_files, uiVars, toolVars>>

\* ------------------------------------------------------------- messages
Tick(p, d) == [type |-> "progress", progress |-> p, duration |-> d]
EndedMsg == [type |-> "ended"]
WorkflowDoneMsg == [type |-> "workflow_done"]

Cmd(op, arg) == [op |-> op, arg |-> arg]
NoCmd == Cmd("none", "")
Commands == {Cmd("pause", ""), Cmd("resume", ""), Cmd("stop", "")}
            \cup {Cmd("seek", a) : a \in SeekPayloads}

\* float(command.split(":")[1]): the strings float() accepts, and their values
\* in milliseconds; any other string raises ValueError
IsFloat(s) == s \in {"0", "0.2", "-0.2"}
ParseFloat(s) ==
    CASE s = "0" -> 0
      [] s = "0.2" -> 200
      [] s = "-0.2" -> -200

\* ------------------------------------------------- pygame.mixer.music
IdleMusic == [loaded |-> 0, state |-> "idle", pos |-> 0, start |-> 0, len |-> 0]

\* pygame.mixer.music.load(path): the track of document k, len ms long
MusicLoad(k, len) == [loaded |-> k, state |-> "idle", pos |-> 0, start |-> 0, len |-> len]

\* pygame.mixer.music.play(start=s): (re)starts the loaded track at s, unpaused;
\* the mixer positions the stream only for s > 0 and rewinds it otherwise
MusicPlay(m, s) ==
    [m EXCEPT !.state = "playing", !.pos = 0, !.start = IF s > 0 THEN s ELSE 0]

\* play(start=s) may instead raise pygame.error for a start it cannot take: a
\* negative one (which of the two happens depends on the mixer build)
PlayMayRaise(s) == s < 0

\* pygame.mixer.music.pause(): only a playing stream pauses
MusicPause(m) == IF m.state = "playing" THEN [m EXCEPT !.state = "paused"] ELSE m

\* pygame.mixer.music.unpause()
MusicUnpause(m) == IF m.state = "paused" THEN [m EXCEPT !.state = "playing"] ELSE m

\* pygame.mixer.music.stop()
MusicStop(m) == [m EXCEPT !.state = "idle", !.pos = 0]

\* pygame.mixer.music.unload()
MusicUnload(m) == IdleMusic

\* pygame.mixer.music.get_busy()
MusicBusy(m) == m.state = "playing"

\* pygame.mixer.music.get_pos(): ms played since play(), not counting the start
\* offset; -1 when no music is playing
MusicPos(m) == IF m.state = "idle" THEN NotPlayingPos ELSE m.pos

\* ms of real time pass: a playing track advances and ends at its length
MusicAdvance(m, ms) ==
    IF m.state # "playing" THEN m
    ELSE IF m.start + m.pos + ms >= m.len THEN [m EXCEPT !.state = "idle", !.pos = 0]
    ELSE [m EXCEPT !.pos = m.pos + ms]

\* what a command step did: the command it took off the channel, the branch of
\* the elif chain that ran, and the commands it left on the channel
Step(c, branch, left) == [taken |-> c, branch |-> branch, left |-> left]
NoStep == Step(NoCmd, "none", <<>>)

\* ------------------------------------------------------------- engine
\* Audio.get_current_position
get_current_position(off, m) == off + MusicPos(m)

\* the commands that end a Pause: Resume, Stop and SeekTo(seconds >= 0)
EndsPause(c) ==
    \/ c.op \in {"resume", "stop"}
    \/ c.op = "seek" /\ IsFloat(c.arg) /\ ParseFloat(c.arg) >= 0

\* whether a Pause is open in the sequence of commands put, after c is put
PauseOpenAfter(open, c) ==
    IF c.op = "pause" THEN TRUE ELSE IF EndsPause(c) THEN FALSE ELSE open

\* the mark of a command put on the channel: the document whose tick loop
\* was running at the put, OutsideLoops when none was or when the put is not
\* followed (only SendMarked follows the puts)
OutsideLoops == 0
PutDuring(p, k) == IF p \in {"tick", "cmd", "check"} THEN k ELSE OutsideLoops

Init ==
    /\ papers \in 0..MaxPapers
    /\ i = 0
    /\ pc = "for"
    /\ is_paused = FALSE
    /\ seek_offset = InitialSeekOffset
    /\ duration = 0
    /\ music = IdleMusic
    /\ audio_command_queue = <<>>
    /\ status_update = <<>>
    /\ log_queue = <<>>
    /\ sent = 0
    /\ trace = <<>>
    /\ outcome = [k \in 1..papers |-> "none"]
    /\ cmd_step = NoStep
    /\ fresh = FALSE
    /\ seek_mark = NoSeek
    /\ synth_log = <<>>
    /\ load_log = <<>>
    /\ pause_mark = NoPause
    /\ seek_sent = FALSE
    /\ put_doc = <<>>
    /\ pause_open = FALSE
    /\ temp_files = {}
    /\ audio_state = "playing"
    /\ slider_dragging = FALSE
    /\ slider_pressed = FALSE
    /\ process = "alive"
    /\ window = TRUE
    /\ runs = 1
    /\ clicks = 0
    /\ _tools = EmptyMap
    /\ _categories = EmptyMap
    /\ tm_call = NoCall
    /\ registered = EmptyMap

\* the controller puts a command on the Command Channel
SendPut(mark) ==
    /\ sent < MaxCmds
    /\ pc \notin {"done", "crashed"}
    /\ \E c \in Commands :
         /\ audio_command_queue' = Append(audio_command_queue, c)
         /\ seek_sent' = (seek_sent \/ c.op = "seek")
         /\ pause_open' = PauseOpenAfter(pause_open, c)
    /\ put_doc' = Append(put_doc, mark)
    /\ sent' = sent + 1
    /\ UNCHANGED <<papers, i, pc, engineVars, music, status_update, log_queue, histVars>>
    /\ UNCHANGED <<pause_mark, temp_files, uiVars, toolVars>>

Send == SendPut(OutsideLoops)

\* the same put, followed: the command is marked with the document whose
\* tick loop is running
SendMarked == SendPut(PutDuring(pc, i))

\* self.log(queue, message)
Put(queue, message) == Append(queue, message)

\* a progress dictionary put on status_update, recorded with its document
Emit(m) ==
    /\ status_update' = Put(status_update, m)
    /\ trace' = Append(trace, [doc |-> i, msg |-> m, after_seek |-> seek_mark,
                               pause |-> pause_mark])

\* ---------------------------------------------- _play_all_papers_async
\* the loop with its bound one short: the last paper is never played
LoopFinishedEarly(idx, n) == idx >= n - 1

\* for i, paper in enumerate(papers, 1): is the list exhausted?
LoopFinished(idx, n) == idx >= n

\* the loop stepping over a paper
NextIndexSkips(idx) == idx + 2

\* the index of the next paper
NextIndex(idx) == idx + 1

\* for loop head with a paper left: log the title, call speak
RunnerNext ==
    /\ pc = "for"
    /\ ~LoopFinished(i, papers)
    /\ i' = NextIndex(i)
    /\ log_queue' = Put(log_queue, "Play")
    /\ pc' = "synth"
    /\ UNCHANGED <<papers, engineVars, music, audio_command_queue, status_update,
                   sent, histVars>>
    /\ UNCHANGED <<pause_mark, seek_sent, pause_open, put_doc, temp_files, uiVars, toolVars>>

\* after the loop: workflow_done
RunnerDone ==
    /\ pc = "for"
    /\ LoopFinished(i, papers)
    /\ Emit(WorkflowDoneMsg)
    /\ pc' = "done"
    /\ UNCHANGED <<papers, i, engineVars, music, audio_command_queue, log_queue, sent,
                   outcome, cmd_step, fresh, seek_mark, synth_log, load_log>>
    /\ UNCHANGED <<pause_mark, seek_sent, pause_open, put_doc, temp_files, uiVars, toolVars>>

\* await asyncio.sleep(1) between two papers
Gap ==
    /\ pc = "gap"
    /\ music' = MusicAdvance(music, GapMs)
    /\ pc' = "for"
    /\ UNCHANGED <<papers, i, engineVars, audio_command_queue, status_update, log_queue,
                   sent, histVars>>
    /\ UNCHANGED <<pause_mark, seek_sent, pause_open, put_doc, temp_files, uiVars, toolVars>>

\* ------------------------------------------------------------ Audio.speak
\* speak, up to the synthesized file and its duration
Synthesize ==
    /\ pc = "synth"
    /\ seek_offset' = InitialSeekOffset
    /\ \E d \in Durations : duration' = d
    /\ synth_log' = Append(synth_log, i)
    /\ temp_files' = temp_files \cup {TempFile(runs, i)}
    /\ pc' = "load"
    /\ UNCHANGED <<papers, i, is_paused, music, audio_command_queue, status_update,
                   log_queue, sent, trace, outcome, cmd_step, fresh, seek_mark, load_log>>
    /\ UNCHANGED <<pause_mark, seek_sent, pause_open, put_doc, uiVars, toolVars>>

\* communicate.save or MP3() raises: the exception leaves speak, the runner
\* and asyncio.run
SynthesizeFails ==
    /\ pc = "synth"
    /\ seek_offset' = InitialSeekOffset
    /\ duration' = 0
    /\ temp_files' = temp_files \cup {TempFile(runs, i)}
    /\ pc' = "crashed"
    /\ UNCHANGED <<papers, i, is_paused, music, audio_command_queue, status_update,
                   log_queue, sent, histVars>>
    /\ UNCHANGED <<pause_mark, seek_sent, pause_open, put_doc, uiVars, toolVars>>

\* pygame.mixer.music.load(self.temp_path); pygame.mixer.music.play()
LoadPlay ==
    /\ pc = "load"
    /\ music' = MusicPlay(MusicLoad(i, duration), 0)
    /\ load_log' = Append(load_log, i)
    /\ fresh' = TRUE
    /\ seek_mark' = NoSeek
    /\ pause_mark' = NoPause
    /\ pc' = "tick"
    /\ UNCHANGED <<papers, i, engineVars, audio_command_queue, status_update, log_queue,
                   sent, trace, outcome, cmd_step, synth_log>>
    /\ UNCHANGED <<seek_sent, pause_open, put_doc, temp_files, uiVars, toolVars>>

\* the progress report made whether paused or not
TickAlways(paused) == TRUE

\* if not self.is_paused: the progress report is due
TickDue(paused) == ~paused

\* pygame.mixer.music.load or play raises pygame.error: the exception leaves
\* speak, the runner and asyncio.run
LoadFails ==
    /\ pc = "load"
    /\ pc' = "crashed"
    /\ UNCHANGED <<papers, i, engineVars, music, audio_command_queue, status_update,
                   log_queue, sent, histVars>>
    /\ UNCHANGED <<pause_mark, seek_sent, pause_open, put_doc, temp_files, uiVars, toolVars>>

\* while True: await asyncio.sleep(0.2); if not self.is_paused: log progress
LoopTick ==
    /\ pc = "tick"
    /\ music' = MusicAdvance(music, TickMs)
    /\ IF TickDue(is_paused)
         THEN /\ Emit(Tick(get_current_position(seek_offset, music'), duration))
              /\ seek_mark' = NoSeek
         ELSE UNCHANGED <<status_update, trace, seek_mark>>
    /\ fresh' = FALSE
    /\ pc' = "cmd"
    /\ UNCHANGED <<papers, i, engineVars, audio_command_queue, log_queue, sent,
                   outcome, cmd_step, synth_log, load_log>>
    /\ UNCHANGED <<pause_mark, seek_sent, pause_open, put_doc, temp_files, uiVars, toolVars>>

\* the pause branch without its `and not self.is_paused`
PauseAlways(c, paused) == c.op = "pause"

\* the branch conditions of the command step, in the order of the elif chain
PauseApplies(c, paused) == c.op = "pause" /\ ~paused
ResumeApplies(c, paused) == ~PauseApplies(c, paused) /\ c.op = "resume" /\ paused
StopApplies(c, paused) ==
    ~PauseApplies(c, paused) /\ ~ResumeApplies(c, paused) /\ c.op = "stop"
SeekApplies(c, paused) ==
    /\ ~PauseApplies(c, paused) /\ ~ResumeApplies(c, paused) /\ ~StopApplies(c, paused)
    /\ c.op = "seek"

\* the stop branch without its break: the loop goes on to the pause check
AfterStopFallsThrough == "check"

\* the stop branch with return for break: the code after the loop is skipped
AfterStopReturns == "gap"

\* where the loop goes after the stop branch: break
AfterStop == "teardown"

\* if not self.audio_command_queue.empty(): false
CmdNone ==
    /\ pc = "cmd"
    /\ audio_command_queue = <<>>
    /\ cmd_step' = NoStep
    /\ pc' = "check"
    /\ UNCHANGED <<papers, i, engineVars, music, audio_command_queue, status_update,
                   log_queue, sent, trace, outcome, fresh, seek_mark, synth_log, load_log>>
    /\ UNCHANGED <<pause_mark, seek_sent, pause_open, put_doc, temp_files, uiVars, toolVars>>

\* command = self.audio_command_queue.get(): one command leaves the channel
Take(branch) ==
    /\ pc = "cmd"
    /\ audio_command_queue # <<>>
    /\ audio_command_queue' = Tail(audio_command_queue)
    /\ put_doc' = Tail(put_doc)
    /\ cmd_step' = Step(Head(audio_command_queue), branch, Tail(audio_command_queue))

CmdPause ==
    /\ Take("pause")
    /\ PauseApplies(Head(audio_command_queue), is_paused)
    /\ music' = MusicPause(music)
    /\ is_paused' = TRUE
    /\ log_queue' = Put(log_queue, "Audio paused.")
    /\ pause_mark' = PauseMark(get_current_position(seek_offset, music), FALSE)
    /\ pc' = "check"
    /\ UNCHANGED <<papers, i, seek_offset, duration, status_update, sent,
                   trace, outcome, fresh, seek_mark, synth_log, load_log>>
    /\ UNCHANGED <<seek_sent, pause_open, temp_files, uiVars, toolVars>>

CmdResume ==
    /\ Take("resume")
    /\ ResumeApplies(Head(audio_command_queue), is_paused)
    /\ music' = MusicUnpause(music)
    /\ is_paused' = FALSE
    /\ log_queue' = Put(log_queue, "Audio resumed.")
    /\ pause_mark' = NoPause
    /\ pc' = "check"
    /\ UNCHANGED <<papers, i, seek_offset, duration, status_update, sent,
                   trace, outcome, fresh, seek_mark, synth_log, load_log>>
    /\ UNCHANGED <<seek_sent, pause_open, temp_files, uiVars, toolVars>>

CmdStop ==
    /\ Take("stop")
    /\ StopApplies(Head(audio_command_queue), is_paused)
    /\ music' = MusicStop(music)
    /\ log_queue' = Put(log_queue, "Audio stopped.")
    /\ outcome' = [outcome EXCEPT ![i] = "stopped"]
    /\ pc' = AfterStop
    /\ UNCHANGED <<papers, i, engineVars, status_update, sent,
                   trace, fresh, seek_mark, synth_log, load_log>>
    /\ UNCHANGED <<pause_mark, seek_sent, pause_open, temp_files, uiVars, toolVars>>

\* Audio.seek(seconds)
CmdSeek ==
    /\ Take("seek")
    /\ SeekApplies(Head(audio_command_queue), is_paused)
    /\ IsFloat(Head(audio_command_queue).arg)
    /\ LET seconds == ParseFloat(Head(audio_command_queue).arg) IN
         /\ music' = MusicPlay(MusicStop(music), seconds)
         /\ seek_offset' = seconds
         /\ is_paused' = FALSE
         /\ seek_mark' = Head(audio_command_queue).arg
    /\ pause_mark' = IF pause_mark.set THEN PauseMark(pause_mark.at, TRUE) ELSE pause_mark
    /\ pc' = "check"
    /\ UNCHANGED <<papers, i, duration, status_update, log_queue, sent,
                   trace, outcome, fresh, synth_log, load_log>>
    /\ UNCHANGED <<seek_sent, pause_open, temp_files, uiVars, toolVars>>

\* Audio.seek(seconds) with play raising after stop(): except Exception logs
\* the warning; seek_offset and is_paused are not reached
CmdSeekPlayError ==
    /\ Take("seek_play_error")
    /\ SeekApplies(Head(audio_command_queue), is_paused)
    /\ IsFloat(Head(audio_command_queue).arg)
    /\ PlayMayRaise(ParseFloat(Head(audio_command_queue).arg))
    /\ music' = MusicStop(music)
    /\ log_queue' = Put(log_queue, "Seek error")
    /\ pc' = "check"
    /\ UNCHANGED <<papers, i, engineVars, status_update, sent,
                   trace, outcome, fresh, seek_mark, synth_log, load_log>>
    /\ UNCHANGED <<pause_mark, seek_sent, pause_open, temp_files, uiVars, toolVars>>

\* the seek branch with the payload parsed after the device was stopped
CmdSeekErrorAfterStop ==
    /\ Take("seek_error")
    /\ SeekApplies(Head(audio_command_queue), is_paused)
    /\ ~IsFloat(Head(audio_command_queue).arg)
    /\ music' = MusicStop(music)
    /\ log_queue' = Put(log_queue, "Seek error")
    /\ pc' = "check"
    /\ UNCHANGED <<papers, i, engineVars, status_update, sent,
                   trace, outcome, fresh, seek_mark, synth_log, load_log>>
    /\ UNCHANGED <<pause_mark, seek_sent, pause_open, temp_files, uiVars, toolVars>>

\* float() raises ValueError: except Exception logs the warning
CmdSeekError ==
    /\ Take("seek_error")
    /\ SeekApplies(Head(audio_command_queue), is_paused)
    /\ ~IsFloat(Head(audio_command_queue).arg)
    /\ log_queue' = Put(log_queue, "Seek error")
    /\ pc' = "check"
    /\ UNCHANGED <<papers, i, engineVars, music, status_update, sent,
                   trace, outcome, fresh, seek_mark, synth_log, load_log>>
    /\ UNCHANGED <<pause_mark, seek_sent, pause_open, temp_files, uiVars, toolVars>>

\* no branch of the elif chain matches: pause while paused, resume while playing
CmdIgnored ==
    /\ Take("ignored")
    /\ LET c == Head(audio_command_queue) IN
         /\ ~PauseApplies(c, is_paused) /\ ~ResumeApplies(c, is_paused)
         /\ ~StopApplies(c, is_paused) /\ ~SeekApplies(c, is_paused)
    /\ pc' = "check"
    /\ UNCHANGED <<papers, i, engineVars, music, status_update, log_queue, sent,
                   trace, outcome, fresh, seek_mark, synth_log, load_log>>
    /\ UNCHANGED <<pause_mark, seek_sent, pause_open, temp_files, uiVars, toolVars>>

\* if self.is_paused: continue
CheckPaused ==
    /\ pc = "check"
    /\ is_paused
    /\ pc' = "tick"
    /\ UNCHANGED <<papers, i, engineVars, music, audio_command_queue, status_update,
                   log_queue, sent, histVars>>
    /\ UNCHANGED <<pause_mark, seek_sent, pause_open, put_doc, temp_files, uiVars, toolVars>>

\* pygame.mixer.music.get_busy() is true: next iteration
CheckBusy ==
    /\ pc = "check"
    /\ ~is_paused
    /\ MusicBusy(music)
    /\ pc' = "tick"
    /\ UNCHANGED <<papers, i, engineVars, music, audio_command_queue, status_update,
                   log_queue, sent, histVars>>
    /\ UNCHANGED <<pause_mark, seek_sent, pause_open, put_doc, temp_files, uiVars, toolVars>>

\* the completion check made without the `if self.is_paused: continue` before it
CheckEndedWhilePaused ==
    /\ pc = "check"
    /\ ~MusicBusy(music)
    /\ Emit(EndedMsg)
    /\ outcome' = [outcome EXCEPT ![i] = "ended"]
    /\ pc' = "teardown"
    /\ UNCHANGED <<papers, i, engineVars, music, audio_command_queue, log_queue, sent,
                   cmd_step, fresh, seek_mark, synth_log, load_log>>
    /\ UNCHANGED <<pause_mark, seek_sent, pause_open, put_doc, temp_files, uiVars, toolVars>>

\* if not pygame.mixer.music.get_busy(): log ended, break
CheckEnded ==
    /\ pc = "check"
    /\ ~is_paused
    /\ ~MusicBusy(music)
    /\ Emit(EndedMsg)
    /\ outcome' = [outcome EXCEPT ![i] = "ended"]
    /\ pc' = "teardown"
    /\ UNCHANGED <<papers, i, engineVars, music, audio_command_queue, log_queue, sent,
                   cmd_step, fresh, seek_mark, synth_log, load_log>>
    /\ UNCHANGED <<pause_mark, seek_sent, pause_open, put_doc, temp_files, uiVars, toolVars>>

\* pygame.mixer.music.stop(); pygame.mixer.music.unload()
Teardown ==
    /\ pc = "teardown"
    /\ music' = MusicUnload(MusicStop(music))
    /\ pc' = "gap"
    /\ UNCHANGED <<papers, i, engineVars, audio_command_queue, status_update, log_queue,
                   sent, histVars>>
    /\ UNCHANGED <<pause_mark, seek_sent, pause_open, put_doc, temp_files, uiVars, toolVars>>

\* ==================================================================
\* The controller: UI (src/src/ui/UI.py) and the worker process it starts
\* ==================================================================
HasWorkflowDone(q) == \E n \in 1..Len(q) : q[n].type = "workflow_done"
HasSeek(q) == \E n \in 1..Len(q) : q[n].op = "seek"

\* the worker is inside the tick loop of a document: a playback is live
InLoop(p) == p \in {"tick", "cmd", "check"}

\* what the controller puts on the Command Channel
UICommands ==
    {Cmd("pause", ""), Cmd("resume", "")} \cup {Cmd("seek", a) : a \in SliderPayloads}
ControllerCommands ==
    \A n \in 1..Len(audio_command_queue) : audio_command_queue[n] \in UICommands

\* the state after UI.__init__: no worker yet, the three queues empty
InitUI ==
    /\ papers \in 0..MaxUIPapers
    /\ i = 0
    /\ pc = "off"
    /\ is_paused = FALSE
    /\ seek_offset = InitialSeekOffset
    /\ duration = 0
    /\ music = IdleMusic
    /\ audio_command_queue = <<>>
    /\ status_update = <<>>
    /\ log_queue = <<>>
    /\ sent = 0
    /\ trace = <<>>
    /\ outcome = [k \in 1..papers |-> "none"]
    /\ cmd_step = NoStep
    /\ fresh = FALSE
    /\ seek_mark = NoSeek
    /\ synth_log = <<>>
    /\ load_log = <<>>
    /\ pause_mark = NoPause
    /\ seek_sent = FALSE
    /\ put_doc = <<>>
    /\ pause_open = FALSE
    /\ temp_files = {}
    /\ audio_state = "stopped"
    /\ slider_dragging = FALSE
    /\ slider_pressed = FALSE
    /\ process = "none"
    /\ window = TRUE
    /\ runs = 0
    /\ clicks = 0
    /\ _tools = EmptyMap
    /\ _categories = EmptyMap
    /\ tm_call = NoCall
    /\ registered = EmptyMap

\* the user presses a button or the slider
Click ==
    /\ window /\ ~slider_pressed
    /\ clicks < MaxClicks
    /\ clicks' = clicks + 1

\* UI.log(message): self.audio_command_queue.put(message)
UIPut(c) ==
    /\ audio_command_queue' = Append(audio_command_queue, c)
    /\ seek_sent' = (seek_sent \/ c.op = "seek")
    /\ pause_open' = PauseOpenAfter(pause_open, c)
    /\ put_doc' = Append(put_doc, OutsideLoops)
    /\ sent' = sent + 1

\* UI.start_process: a new worker process with a new Audio object, on the
\* same three queues.  The guard is audio_state alone; self.process is
\* overwritten, and from here on pc, i and the engine variables are those of
\* the new worker (a worker still alive at this point is not followed further)
start_process ==
    /\ Click
    /\ audio_state = "stopped"
    /\ runs' = runs + 1
    /\ process' = "alive"
    /\ audio_state' = "playing"
    /\ pc' = "main"
    /\ i' = 0
    /\ is_paused' = FALSE
    /\ seek_offset' = InitialSeekOffset
    /\ duration' = 0
    /\ music' = IdleMusic
    /\ trace' = <<>>
    /\ outcome' = [k \in 1..papers |-> "none"]
    /\ cmd_step' = NoStep
    /\ fresh' = FALSE
    /\ seek_mark' = NoSeek
    /\ synth_log' = <<>>
    /\ load_log' = <<>>
    /\ pause_mark' = NoPause
    /\ seek_sent' = HasSeek(audio_command_queue)
    /\ put_doc' = [n \in 1..Len(put_doc) |-> OutsideLoops]
    /\ UNCHANGED <<papers, audio_command_queue, status_update, log_queue, sent,
                   temp_files, pause_open, slider_dragging, slider_pressed, window,
                   toolVars>>

\* Execution.main_function up to play_all_papers: the papers are fetched and
\* summarized
WorkerMain ==
    /\ pc = "main"
    /\ pc' = "for"
    /\ UNCHANGED <<papers, i, engineVars, music, audio_command_queue, status_update,
                   log_queue, sent, histVars>>
    /\ UNCHANGED <<pause_mark, seek_sent, pause_open, put_doc, temp_files, uiVars, toolVars>>

\* the worker process ends: main_function has returned, or an exception left it
WorkerExit ==
    /\ pc \in {"done", "crashed"}
    /\ process = "alive"
    /\ process' = "exited"
    /\ UNCHANGED <<papers, i, pc, engineVars, music, audio_command_queue, status_update,
                   log_queue, sent, histVars>>
    /\ UNCHANGED <<pause_mark, seek_sent, pause_open, put_doc, temp_files, audio_state, slider_dragging,
                   slider_pressed, window, runs, clicks, toolVars>>

\* self.process.terminate(); self.process.join(): the worker is gone wherever
\* it was, and its device with it
Terminate ==
    /\ process' = "terminated"
    /\ pc' = "killed"
    /\ music' = IdleMusic
    /\ outcome' = IF InLoop(pc) THEN [outcome EXCEPT ![i] = "killed"] ELSE outcome

\* a Stop button that asks the engine to stop and leaves the worker alone
stop_process_cooperative ==
    /\ Click
    /\ UIPut(Cmd("stop", ""))
    /\ UNCHANGED <<papers, i, pc, engineVars, music, status_update, log_queue,
                   trace, outcome, cmd_step, fresh, seek_mark, synth_log, load_log,
                   pause_mark, temp_files, audio_state, slider_dragging, slider_pressed,
                   process, window, runs, toolVars>>

\* UI.stop_process: terminate the worker if it is alive, remove the temp
\* directories
stop_process ==
    /\ Click
    /\ IF process = "alive"
         THEN /\ Terminate
              /\ audio_state' = "stopped"
         ELSE UNCHANGED <<process, pc, music, outcome, audio_state>>
    /\ temp_files' = {}
    /\ UNCHANGED <<papers, i, engineVars, audio_command_queue, status_update, log_queue,
                   sent, trace, cmd_step, fresh, seek_mark, synth_log, load_log,
                   pause_mark, seek_sent, pause_open, put_doc, slider_dragging, slider_pressed, window, runs,
                   toolVars>>

\* UI.on_close: terminate the worker if it is alive, remove the temp
\* directories, destroy the window
on_close ==
    /\ window /\ ~slider_pressed
    /\ IF process = "alive"
         THEN Terminate
         ELSE UNCHANGED <<process, pc, music, outcome>>
    /\ temp_files' = {}
    /\ window' = FALSE
    /\ UNCHANGED <<papers, i, engineVars, audio_command_queue, status_update, log_queue,
                   sent, trace, cmd_step, fresh, seek_mark, synth_log, load_log,
                   pause_mark, seek_sent, pause_open, put_doc, audio_state, slider_dragging, slider_pressed,
                   runs, clicks, toolVars>>

\* UI.toggle_pause_resume
toggle_pause_resume ==
    /\ Click
    /\ \/ /\ audio_state = "playing"
          /\ UIPut(Cmd("pause", ""))
          /\ audio_state' = "paused"
       \/ /\ audio_state = "paused"
          /\ UIPut(Cmd("resume", ""))
          /\ audio_state' = "playing"
    /\ UNCHANGED <<papers, i, pc, engineVars, music, status_update, log_queue,
                   histVars, pause_mark, temp_files, slider_dragging, slider_pressed,
                   process, window, runs, toolVars>>

\* UI.on_slider_press
on_slider_press ==
    /\ Click
    /\ slider_pressed' = TRUE
    /\ IF audio_state = "playing"
         THEN /\ UIPut(Cmd("pause", ""))
              /\ audio_state' = "paused"
              /\ slider_dragging' = TRUE
         ELSE UNCHANGED <<audio_command_queue, seek_sent, pause_open, put_doc, sent, audio_state, slider_dragging>>
    /\ UNCHANGED <<papers, i, pc, engineVars, music, status_update, log_queue,
                   histVars, pause_mark, temp_files, process, window, runs, toolVars>>

\* UI.on_slider_release
on_slider_release ==
    /\ window /\ slider_pressed
    /\ slider_pressed' = FALSE
    /\ IF audio_state \in {"playing", "paused"}
         THEN /\ slider_dragging' = FALSE
              /\ \E a \in SliderPayloads : UIPut(Cmd("seek", a))
              /\ audio_state' = "playing"
         ELSE UNCHANGED <<audio_command_queue, seek_sent, pause_open, put_doc, sent, audio_state, slider_dragging>>
    /\ UNCHANGED <<papers, i, pc, engineVars, music, status_update, log_queue,
                   histVars, pause_mark, temp_files, process, window, runs, clicks,
                   toolVars>>

\* UI.update_UI_status: read everything on status_update; workflow_done puts
\* the controller back to "stopped"
update_UI_status ==
    /\ window
    /\ audio_state \in {"playing", "paused"}
    /\ ~slider_dragging
    /\ status_update # <<>>
    /\ status_update' = <<>>
    /\ audio_state' = IF HasWorkflowDone(status_update) THEN "stopped" ELSE audio_state
    /\ UNCHANGED <<papers, i, pc, engineVars, music, audio_command_queue, log_queue,
                   sent, histVars, pause_mark, seek_sent, pause_open, put_doc, temp_files, slider_dragging,
                   slider_pressed, process, window, runs, clicks, toolVars>>

\* UI.check_log_queue: read every line on log_queue (into the console
\* widget, which is not kept here)
check_log_queue ==
    /\ window
    /\ log_queue # <<>>
    /\ log_queue' = <<>>
    /\ UNCHANGED <<papers, i, pc, engineVars, music, audio_command_queue, status_update,
                   sent, histVars, pause_mark, seek_sent, pause_open, put_doc, temp_files, uiVars, toolVars>>

\* ==================================================================
\* The tool registry: ToolManager (src/src/core/tool_manager.py)
\* ==================================================================
\* tool instances handed to register_tool: metadata.name and metadata.category
\* as the tool gives them.  t1 and t2 have the same name once stripped, t3 has
\* no category, t4 a blank name, t6 a blank category
Tool(id, name, category) == [id |-> id, name |-> name, category |-> category]
Tools ==
    {Tool("t1", "a", "io"), Tool("t2", " a", "IO "), Tool("t3", "b", ""),
     Tool("t4", " ", "io"), Tool("t5", "c", "io"), Tool("t6", "b", " ")}

\* names passed to the lookups and to unregister_tool
ToolNames == {"a", " a", "b", "c", "d", " ", ""}

\* str.strip() on the names above
Strip(str) ==
    CASE str = " a" -> "a"
      [] str = " " -> ""
      [] str = "IO " -> "IO"
      [] OTHER -> str

\* str.lower()
Lower(str) == IF str = "IO" THEN "io" ELSE str

\* category = getattr(metadata, 'category', 'general'); 'general' if it is
\* empty; category.strip().lower()
NormalizeCategory(c) == IF c = "" THEN "general" ELSE Lower(Strip(c))

\* a dict with one key set, and with one key deleted
SetKey(f, k, v) == [x \in DOMAIN f \cup {k} |-> IF x = k THEN v ELSE f[x]]
KeepKey(f, k) == f
RemoveKey(f, k) == [x \in DOMAIN f \ {k} |-> f[x]]

\* list.remove(x) for a list that holds x at most once
ListRemove(l, x) == SelectSeq(l, LAMBDA y : y # x)
InList(l, x) == \E n \in 1..Len(l) : l[n] = x

\* the argument checks shared by get_tool, is_tool_registered and
\* unregister_tool: empty, or blank once stripped, raises ValueError
InvalidName(n) == n = "" \/ Strip(n) = ""

\* ToolManager.get_tool
get_tool(tools, n) ==
    IF InvalidName(n) THEN "ValueError"
    ELSE IF Strip(n) \in DOMAIN tools THEN tools[Strip(n)]
    ELSE "None"

\* ToolManager.is_tool_registered
is_tool_registered(tools, n) ==
    IF InvalidName(n) THEN "ValueError"
    ELSE IF Strip(n) \in DOMAIN tools THEN "True"
    ELSE "False"

\* sum(category_stats.values())
RECURSIVE SumValues(_)
SumValues(f) ==
    IF DOMAIN f = {} THEN 0
    ELSE LET c == CHOOSE x \in DOMAIN f : TRUE IN
         f[c] + SumValues([x \in DOMAIN f \ {c} |-> f[x]])

\* the categories get_tool_count counts: `if category_name and
\* isinstance(tool_list, list)`; an empty category name is skipped
CountedCategories(cats) == {c \in DOMAIN cats : c # ""}

\* ToolManager.get_tool_count
get_tool_count(tools, cats) ==
    [total |-> Cardinality(DOMAIN tools),
     categories |-> [c \in CountedCategories(cats) |-> Len(cats[c])],
     category_count |-> Cardinality(CountedCategories(cats))]

\* the inner try/except around tool_instance.cleanup(): with the exception
\* let through, the unregistration stops there
StopsAfterCleanup(raised) == ~raised

\* the inner try/except around tool_instance.cleanup(): the exception is
\* logged and the unregistration goes on
ProceedsAfterCleanup(raised) == TRUE

playerVars == <<papers, i, pc, engineVars, music, audio_command_queue, status_update,
                log_queue, sent, histVars, pause_mark, seek_sent, pause_open, put_doc,
                temp_files, uiVars>>

\* a ToolManager just constructed; no player running beside it
InitTools ==
    /\ Init
    /\ papers = 0

Returns(op, arg, result, raised) ==
    tm_call' = Call(op, arg, result, raised, 1 - tm_call.seq)

\* a register_tool call: the tool handed in, what its is_available() gave, and
\* what the call returned or raised
Registers(t, available, result) ==
    tm_call' = [op |-> "register_tool", arg |-> t.id, result |-> result,
                raised |-> FALSE, seq |-> 1 - tm_call.seq, available |-> available]

\* ToolManager.register_tool(tool)
register_tool ==
    \E t \in Tools, available \in BOOLEAN :
        LET tool_name == Strip(t.name)
            category == NormalizeCategory(t.category) IN
        /\ IF t.name = "" \/ tool_name = ""
             THEN /\ Registers(t, available, "RuntimeError")
                  /\ UNCHANGED <<_tools, _categories, registered>>
           ELSE IF tool_name \in DOMAIN _tools
             THEN /\ Registers(t, available, "ToolRegistrationError")
                  /\ UNCHANGED <<_tools, _categories, registered>>
           ELSE IF ~available
             THEN /\ Registers(t, available, "ToolRegistrationError")
                  /\ UNCHANGED <<_tools, _categories, registered>>
           ELSE /\ _tools' = SetKey(_tools, tool_name, t.id)
                /\ _categories' =
                     LET list == IF category \in DOMAIN _categories
                                   THEN _categories[category] ELSE <<>> IN
                     SetKey(_categories, category,
                            IF InList(list, tool_name) THEN list
                            ELSE Append(list, tool_name))
                /\ registered' = SetKey(registered, tool_name, t.id)
                /\ Registers(t, available, "None")
        /\ UNCHANGED playerVars

\* ToolManager.unregister_tool(tool_name)
unregister_tool ==
    \E n \in ToolNames, raised \in BOOLEAN :
        LET tool_name == Strip(n) IN
        /\ IF InvalidName(n)
             THEN /\ Returns("unregister_tool", n, "ValueError", FALSE)
                  /\ UNCHANGED <<_tools, _categories, registered>>
           ELSE IF tool_name \notin DOMAIN _tools
             THEN /\ Returns("unregister_tool", n, "False", FALSE)
                  /\ UNCHANGED <<_tools, _categories, registered>>
           ELSE IF ~ProceedsAfterCleanup(raised)
             THEN /\ Returns("unregister_tool", n, "RuntimeError", raised)
                  /\ UNCHANGED <<_tools, _categories, registered>>
           ELSE /\ _tools' = RemoveKey(_tools, tool_name)
                /\ _categories' =
                     LET cleaned == [c \in DOMAIN _categories |->
                                        ListRemove(_categories[c], tool_name)]
                         emptied == {c \in DOMAIN _categories :
                                        /\ InList(_categories[c], tool_name)
                                        /\ cleaned[c] = <<>>} IN
                     [c \in DOMAIN _categories \ emptied |-> cleaned[c]]
                /\ registered' = [x \in DOMAIN registered \ {tool_name} |-> registered[x]]
                /\ Returns("unregister_tool", n, "True", raised)
        /\ UNCHANGED playerVars

\* a call of ToolManager.get_tool(tool_name)
get_tool_call ==
    /\ \E n \in ToolNames : Returns("get_tool", n, get_tool(_tools, n), FALSE)
    /\ UNCHANGED <<_tools, _categories, registered, playerVars>>

\* a call of ToolManager.is_tool_registered(tool_name)
is_tool_registered_call ==
    /\ \E n \in ToolNames :
         Returns("is_tool_registered", n, is_tool_registered(_tools, n), FALSE)
    /\ UNCHANGED <<_tools, _categories, registered, playerVars>>

\* ==================================================================
\* Properties
\* ==================================================================
\* the Ticks and Endeds of document k put on the Progress Channel so far
IsTick(e) == e.msg.type = "progress"
IsEnded(e) == e.msg.type = "ended"
IsDone(e) == e.msg.type = "workflow_done"
DocMsgs(tr, k) == SelectSeq(tr, LAMBDA e : e.doc = k /\ (IsTick(e) \/ IsEnded(e)))
HasStop(q) == \E n \in 1..Len(q) : q[n].op = "stop"

\* C1 -- Stop finality: the step that takes a 'stop' for document k stops the
\* device and emits nothing, and from then on no Tick and no Ended of
\* document k is put on the Progress Channel; whatever is put later belongs
\* to a later document or is workflow_done.
StopFinality ==
    [][\A k \in 1..papers :
         /\ (outcome[k] # "stopped" /\ outcome'[k] = "stopped")
              => /\ music'.state = "idle"
                 /\ status_update' = status_update
                 /\ trace' = trace
         /\ outcome[k] = "stopped"
              => /\ outcome'[k] = "stopped"
                 /\ DocMsgs(trace', k) = DocMsgs(trace, k)
                 /\ Len(status_update') > Len(status_update)
                      => \/ trace'[Len(trace')].doc > k
                         \/ IsDone(trace'[Len(trace')])]_vars

\* document 1 was stopped and document 2 has reported a Tick since
StopFinalityWitness ==
    /\ papers = 2
    /\ outcome[1] = "stopped"
    /\ \E n \in 1..Len(trace) : trace[n].doc = 2 /\ IsTick(trace[n])

\* C2 -- Full drain per tick: when the completion check of an iteration is
\* made, no command that was in the Command Channel when the iteration's
\* command step began is still in the channel.
FullDrain == pc = "check" => cmd_step.left = <<>>

\* C3 -- A Stop issued the instant the track ends is never lost: an iteration
\* whose command step began with a 'stop' anywhere in the Command Channel
\* does not end the document as Ended and does not leave that stop queued.
StopNeverLost ==
    (pc = "teardown" /\ outcome[i] = "ended") => ~HasStop(cmd_step.left)

\* C4 -- Every document's session starts in state Playing: when the tick
\* loop of a document begins (after load and play()), seek_offset = 0 and
\* is_paused = FALSE, whatever was applied during earlier documents.
SessionStartsPlaying ==
    (pc = "tick" /\ fresh) => (seek_offset = 0 /\ is_paused = FALSE)

\* C5 -- workflow_done is emitted at most once, exactly once when the runner
\* has returned, only after the loop of every document has exited (Ended or
\* Stopped), and it is the last message of the Progress Channel.
WorkflowDoneOnce ==
    LET dones == {n \in 1..Len(status_update) :
                      status_update[n].type = "workflow_done"} IN
    /\ Cardinality(dones) <= 1
    /\ pc = "done" <=> Cardinality(dones) = 1
    /\ \A n \in dones :
         /\ n = Len(status_update)
         /\ i = papers
         /\ \A k \in 1..papers : outcome[k] \in {"ended", "stopped"}

\* a two-document run has returned, the first document stopped, the second ended
WorkflowDoneOnceWitness ==
    /\ pc = "done"
    /\ papers = 2
    /\ outcome[1] = "stopped"
    /\ outcome[2] = "ended"
    /\ status_update[Len(status_update)].type = "workflow_done"

\* C6 -- Stop ends only the current document: after a Stop consumed during
\* document k (not the last), no Ended of k is emitted and document k+1 is
\* synthesized, loaded and played, enters Playing and reports its playback
\* by Ticks: once its loop has run its tick step, a Tick of k+1 is there.
StopEndsOnlyCurrent ==
    \A k \in 1..(papers - 1) :
        outcome[k] = "stopped" =>
            /\ \A n \in 1..Len(trace) : ~(trace[n].doc = k /\ IsEnded(trace[n]))
            /\ (i = k + 1 /\ pc \in {"cmd", "check"}) =>
                   /\ music.loaded = k + 1
                   /\ \E n \in 1..Len(trace) : trace[n].doc = k + 1 /\ IsTick(trace[n])

\* C7 -- The playlist is consumed once, front to back: the documents
\* synthesized and the documents loaded are 1, 2, ... in order, none skipped
\* or repeated; a document is synthesized only when the loop of the one
\* before it has exited; a run that returns has played them all.
PlaylistInOrder ==
    /\ \A n \in 1..Len(synth_log) : synth_log[n] = n
    /\ \A n \in 1..Len(load_log) : load_log[n] = n
    /\ Len(synth_log) <= papers
    /\ Len(load_log) <= Len(synth_log)
    /\ Len(synth_log) <= Len(load_log) + 1
    /\ \A n \in 2..Len(synth_log) : outcome[n - 1] \in {"ended", "stopped"}
    /\ \A k \in 1..papers : outcome[k] # "none" => k <= Len(load_log)
    /\ pc = "done" => (Len(synth_log) = papers /\ Len(load_log) = papers)

\* a run of two documents has returned, both synthesized and loaded in order,
\* with commands of the controller applied on the way
PlaylistInOrderWitness ==
    /\ papers = 2
    /\ pc = "done"
    /\ synth_log = <<1, 2>>
    /\ load_log = <<1, 2>>
    /\ sent > 0
    /\ audio_command_queue = <<>>

\* C8 -- At most one PlaybackSession is live: the device holds no track
\* except between the load of a document and the teardown of its loop, so
\* document k+1 is loaded only onto a stopped, unloaded device, on both the
\* Ended and the Stopped exit.
OneSessionLive ==
    /\ music.loaded \in {0, i}
    /\ pc \notin {"tick", "cmd", "check", "teardown"} => music = IdleMusic
    /\ pc \in {"tick", "cmd", "check"} => music.loaded = i

\* document 2 is about to be loaded after document 1 was stopped
OneSessionLiveWitness ==
    /\ papers = 2
    /\ i = 2
    /\ pc = "load"
    /\ outcome[1] = "stopped"

\* C9 -- Seek contract: a SeekTo(t), 0 <= t <= duration, leaves the device
\* playing from t with seek_offset = t and is_paused = FALSE, and the next
\* Tick of the document reports t <= elapsed <= t + one tick period.
SeekContract ==
    /\ (pc = "check" /\ cmd_step.branch = "seek") =>
           LET t == ParseFloat(cmd_step.taken.arg) IN
           /\ seek_offset = t
           /\ is_paused = FALSE
           /\ music.state = "playing" /\ music.start = t /\ music.pos = 0
    /\ \A n \in 1..Len(trace) :
           (IsTick(trace[n]) /\ trace[n].after_seek # NoSeek) =>
               LET t == ParseFloat(trace[n].after_seek) IN
               (0 <= t /\ t <= trace[n].msg.duration) =>
                   /\ t <= trace[n].msg.progress
                   /\ trace[n].msg.progress <= t + TickMs

\* C10 -- Idempotence of Pause and Resume: the command step that takes a
\* Pause while is_paused, or a Resume while not is_paused, changes neither
\* is_paused nor seek_offset, makes no device call and puts no message on
\* either queue; it only removes the command and goes on to the pause check.
Redundant(c, paused) == (c.op = "pause" /\ paused) \/ (c.op = "resume" /\ ~paused)
PauseFreeze ==
    \A n \in 1..Len(trace) :
        (IsTick(trace[n]) /\ trace[n].pause.set) =>
            trace[n].msg.progress >= trace[n].pause.at

\* C11, as the code has it -- after a Pause applied to a document, no Tick of
\* that document is emitted while is_paused holds, that is until a Resume or
\* a seek has been applied; the Ticks emitted after such a seek and before
\* any Resume report the position the seek set, which may be below e.
PauseFreezeUntilResumeOrSeek ==
    /\ (pause_mark.set /\ ~pause_mark.seeked) => is_paused
    /\ \A n \in 1..Len(trace) :
          (IsTick(trace[n]) /\ trace[n].pause.set) => trace[n].pause.seeked

\* a Pause was applied, then a seek to an earlier position ended the pause
\* with no Resume, and the Tick that followed, one tick period after the seek
\* target, is below the position of the Pause
PauseFreezeWitness ==
    \E n \in 1..Len(trace) :
        /\ IsTick(trace[n])
        /\ trace[n].pause.set
        /\ trace[n].pause.seeked
        /\ trace[n].after_seek # NoSeek
        /\ trace[n].msg.progress = ParseFloat(trace[n].after_seek) + TickMs
        /\ trace[n].msg.progress < trace[n].pause.at

\* C12 -- Monotonicity: in a run in which no seek command is sent, the Ticks
\* of one document report non-decreasing positions, each compared with the
\* Tick of that document before it, the last Tick before Ended included.
DocTicks(tr, k) == SelectSeq(tr, LAMBDA e : e.doc = k /\ IsTick(e))
CooperativeStopOnly == \A k \in 1..papers : outcome[k] # "killed"

\* C13, as the code has it -- the controller never puts 'stop' on the Command
\* Channel; it puts only pause, resume and seek, and it ends a live playback
\* by terminating the worker process, so no document of a run with this
\* controller leaves its loop through the engine's stop branch.
CancelByTerminate ==
    /\ ControllerCommands
    /\ ~HasStop(audio_command_queue)
    /\ cmd_step.taken.op # "stop"
    /\ \A k \in 1..papers : outcome[k] # "stopped"
    /\ process = "terminated" => pc = "killed"

\* the Stop button was pressed while a document was playing: the worker was
\* terminated inside the tick loop and the controller is back to "stopped"
CancelByTerminateWitness ==
    /\ papers = 1
    /\ outcome[1] = "killed"
    /\ process = "terminated"
    /\ audio_state = "stopped"
    /\ window

\* C14 -- A synthesis failure is terminal for the current document only: a
\* worker that has come to rest after the synthesis of some document failed
\* has gone through the whole playlist and has emitted workflow_done, once,
\* as its last message.
SynthesisFailed == Len(synth_log) < i /\ pc \notin {"synth"}
SynthesisFailureLocal ==
    (pc \in {"done", "crashed"} /\ SynthesisFailed) =>
        /\ i = papers
        /\ Len(SelectSeq(status_update, LAMBDA m : m.type = "workflow_done")) = 1
        /\ status_update[Len(status_update)].type = "workflow_done"

\* C15 -- Every engine-side error yields a log line for the controller: when
\* a seek has failed, and when the worker has stopped on a synthesis or a
\* device error, the last line the engine has put on log_queue reports the
\* error (it is not one of the lines of normal operation).
RoutineLines == {"Play", "Audio paused.", "Audio resumed.", "Audio stopped."}
LastLineReportsError ==
    /\ log_queue # <<>>
    /\ log_queue[Len(log_queue)] \notin RoutineLines
ErrorsLogged ==
    /\ (pc = "check" /\ cmd_step.branch = "seek_error") => LastLineReportsError
    /\ pc = "crashed" => LastLineReportsError

\* C16 -- Malformed seek is recovered locally: the command step that takes a
\* 'seek:<payload>' whose payload is not a number removes it, puts exactly
\* one warning line on log_queue, calls nothing on the device, leaves
\* seek_offset and is_paused as they were, puts nothing on status_update and
\* goes on to the pause and completion checks of the same iteration.
MalformedSeekLocal ==
    [][(/\ pc = "cmd"
        /\ pc' # "cmd"
        /\ audio_command_queue # <<>>
        /\ Head(audio_command_queue).op = "seek"
        /\ ~IsFloat(Head(audio_command_queue).arg))
       => /\ audio_command_queue' = Tail(audio_command_queue)
          /\ log_queue' = Append(log_queue, "Seek error")
          /\ music' = music
          /\ seek_offset' = seek_offset
          /\ is_paused' = is_paused
          /\ status_update' = status_update
          /\ pc' = "check"]_vars

\* 'seek:abc' was taken while the track was playing, and it still plays
MalformedSeekLocalWitness ==
    /\ pc = "check"
    /\ cmd_step.branch = "seek_error"
    /\ cmd_step.taken = Cmd("seek", "abc")
    /\ music.state = "playing"
    /\ log_queue[Len(log_queue)] = "Seek error"

\* C17 -- SeekTo carries seconds >= 0: seek_offset is never negative, and the
\* command step that takes a seek with a negative number of seconds leaves
\* the device, seek_offset and is_paused as they were and the loop goes on.
NegativeSeekRejected ==
    /\ [](seek_offset >= 0)
    /\ [][(/\ pc = "cmd"
            /\ pc' # "cmd"
            /\ audio_command_queue # <<>>
            /\ Head(audio_command_queue).op = "seek"
            /\ IsFloat(Head(audio_command_queue).arg)
            /\ ParseFloat(Head(audio_command_queue).arg) < 0)
           => /\ music' = music
              /\ seek_offset' = seek_offset
              /\ is_paused' = is_paused
              /\ pc' = "check"]_vars

\* C18 -- Temp audio artifacts are scoped per document: once the loop of
\* document k has exited and the runner has moved on, the file synthesized
\* for k is gone, and when workflow_done has been emitted no file made
\* during the run is left in the temp directory.
TempArtifactsScoped ==
    /\ \A k \in 1..papers :
          (outcome[k] \in {"ended", "stopped"} /\ (i > k \/ pc \in {"gap", "for", "done"}))
              => TempFile(runs, k) \notin temp_files
    /\ pc = "done" => temp_files = {}

RegisterRejects ==
    [][(tm_call'.seq # tm_call.seq /\ tm_call'.op = "register_tool") =>
         \A t \in Tools :
             (/\ t.id = tm_call'.arg
              /\ Strip(t.name) # ""
              /\ (Strip(t.name) \in DOMAIN _tools \/ ~tm_call'.available))
             => /\ tm_call'.result = "ValueError"
                /\ _tools' = _tools
                /\ _categories' = _categories
                /\ get_tool(_tools', t.name) = get_tool(_tools, t.name)]_vars

\* C22 -- Pausing suppresses end-of-track detection: the iteration whose
\* command step leaves is_paused true makes no completion check, emits no
\* Ended and goes back to the sleep; Ended is emitted only by a completion
\* check made with is_paused false; a document does not leave its loop while
\* is_paused holds except through the stop branch, and is_paused becomes
\* false in the loop only through the resume or the seek branch.
PauseSuppressesEnded ==
    [][/\ (pc = "check" /\ is_paused /\ pc' # pc)
          => /\ pc' = "tick"
             /\ trace' = trace
             /\ status_update' = status_update
             /\ outcome' = outcome
       /\ (Len(trace') > Len(trace) /\ IsEnded(trace'[Len(trace')]))
          => (pc = "check" /\ ~is_paused)
       /\ (InLoop(pc) /\ is_paused /\ ~InLoop(pc'))
          => (cmd_step'.branch = "stop" /\ pc = "cmd")
       /\ (InLoop(pc) /\ is_paused /\ ~is_paused')
          => (cmd_step'.branch \in {"resume", "seek"} /\ pc = "cmd")]_vars

\* the device of document 2 has stopped being busy while is_paused holds (the
\* track ran out): the completion check is about to be skipped, no Ended of
\* the document has been emitted and its loop goes on
PauseSuppressesEndedWitness ==
    /\ pc = "check"
    /\ is_paused
    /\ music.loaded = i
    /\ music.state = "idle"
    /\ outcome[i] = "none"
    /\ \A n \in 1..Len(trace) : ~(trace[n].doc = i /\ IsEnded(trace[n]))

\* C23 -- Ended is emitted for a document only by the completion check of an
\* iteration whose command step left is_paused false and did not take a
\* Stop, with the device not busy; a document has at most one Ended, a run
\* has no more Endeds than documents, and a document that left its loop as
\* Ended or as Stopped never gets the other exit.
Endeds(tr) == {n \in 1..Len(tr) : IsEnded(tr[n])}
EndedOnlyWhenDue ==
    /\ [](LET E == Endeds(trace) IN
          /\ \A m, n \in E : trace[m].doc = trace[n].doc => m = n
          /\ \A k \in 1..papers : outcome[k] = "ended" <=> \E n \in E : trace[n].doc = k
          /\ Cardinality(E) <= papers
          /\ \A n \in E : trace[n].doc \in 1..papers)
    /\ [][/\ (Len(trace') > Len(trace) /\ IsEnded(trace'[Len(trace')]))
              => /\ pc = "check"
                 /\ ~is_paused
                 /\ cmd_step.branch # "stop"
                 /\ ~MusicBusy(music)
                 /\ trace'[Len(trace')].doc = i
           /\ \A k \in 1..papers :
                 outcome[k] \in {"ended", "stopped"} => outcome'[k] = outcome[k]]_vars

\* a run of two documents has returned: the first left its loop as Ended, the
\* second as Stopped, and the Progress Channel holds one Ended
EndedOnlyWhenDueWitness ==
    /\ papers = 2
    /\ pc = "done"
    /\ outcome[1] = "ended"
    /\ outcome[2] = "stopped"
    /\ Len(SelectSeq(status_update, LAMBDA m : m.type = "ended")) = 1

\* C24 -- Tick range: with the controller on the Command Channel, whose
\* commands are Pause, Resume and SeekTo(t) with 0 <= t <= duration only,
\* every Tick of a document reports 0 <= elapsed <= duration, the Ticks
\* emitted after the device has finished or just after a seek included.
TickRange ==
    \A n \in 1..Len(trace) :
        IsTick(trace[n]) =>
            /\ 0 <= trace[n].msg.progress
            /\ trace[n].msg.progress <= trace[n].msg.duration

\* C25 -- ToolManager index consistency: after any register_tool and
\* unregister_tool calls, every registered name is in exactly one category
\* list (once), every name in a category list is registered, no category
\* list is empty, and get_tool_count() gives total = number of registered
\* tools = sum of its per-category counts.
IndexStructure ==
    /\ \A n \in DOMAIN _tools :
          /\ Cardinality({c \in DOMAIN _categories : InList(_categories[c], n)}) = 1
          /\ \A c \in DOMAIN _categories :
                Cardinality({k \in 1..Len(_categories[c]) : _categories[c][k] = n}) <= 1
    /\ \A c \in DOMAIN _categories :
          /\ _categories[c] # <<>>
          /\ \A k \in 1..Len(_categories[c]) : _categories[c][k] \in DOMAIN _tools
IndexConsistency ==
    /\ IndexStructure
    /\ get_tool_count(_tools, _categories).total = Cardinality(DOMAIN _tools)
    /\ get_tool_count(_tools, _categories).total
          = SumValues(get_tool_count(_tools, _categories).categories)

\* C26 -- Commands do not leak across documents: a command put on the
\* Command Channel while the tick loop of document k was running is applied
\* (its pause, resume, stop or seek branch runs) only in the loop of document
\* k; one still on the channel when that loop exits is never applied to the
\* session of a later document.
AppliedBranches == {"pause", "resume", "stop", "seek", "seek_play_error"}
NoCommandLeak ==
    [][(/\ pc = "cmd"
        /\ pc' # "cmd"
        /\ audio_command_queue # <<>>
        /\ cmd_step'.branch \in AppliedBranches)
       => Head(put_doc) \in {OutsideLoops, i}]_vars

\* C27 -- Termination: under weak fairness of the engine loop, in a run in
\* which no synthesis and no load fails and every Pause put on the channel
\* is eventually followed by a Resume, SeekTo or Stop, workflow_done is
\* eventually emitted and play_all_papers returns.
Termination ==
    ([](pc # "crashed") /\ <>[](~pause_open)) => <>(pc = "done")

\* C28 -- At most one worker process is alive at any time: start_process
\* spawns a new worker only when no worker spawned before is still running,
\* whatever the interleaving of the controller's actions with the worker's
\* progress and exit.
OneWorkerAlive ==
    [][runs' # runs => process # "alive"]_vars

\* C29 -- Controller and engine agree on the pause state: whenever a worker
\* is inside a document's tick loop and the Command Channel is empty,
\* audio_state is "paused" exactly when is_paused is true and "playing"
\* exactly when it is false.
PauseAgreement ==
    (process = "alive" /\ InLoop(pc) /\ audio_command_queue = <<>>) =>
        /\ audio_state = "paused" <=> is_paused
        /\ audio_state = "playing" <=> ~is_paused

\* C30 -- The controller can always get back to "stopped": in every
\* reachable state with the window open, some sequence of controller actions
\* leads to audio_state = "stopped" (Play enabled): it is there already, or
\* the Stop button terminates a worker that is alive, or a status poll (after
\* the slider is released) reads a workflow_done that is on status_update.
ControllerCanStop ==
    \/ audio_state = "stopped"
    \/ process = "alive"
    \/ HasWorkflowDone(status_update)
CanReturnToStopped == window => ControllerCanStop

\* a state from which the controller cannot get to "stopped" is left by no
\* step at all, of the controller or the worker, while the window is open
StuckForGood ==
    [][(window /\ ~ControllerCanStop) => (~window' \/ ~ControllerCanStop')]_vars

Runner == RunnerNext \/ RunnerDone \/ Gap
Speak ==
    \/ Synthesize \/ SynthesizeFails \/ LoadPlay \/ LoadFails \/ LoopTick
    \/ CmdNone \/ CmdPause \/ CmdResume \/ CmdStop \/ CmdSeek \/ CmdSeekPlayError
    \/ CmdSeekError \/ CmdIgnored
    \/ CheckPaused \/ CheckBusy \/ CheckEnded \/ Teardown

Next == Send \/ Runner \/ Speak

Spec == Init /\ [][Next]_vars

\* the engine with the controller's puts followed
NextMarked == SendMarked \/ Runner \/ Speak
SpecMarked == Init /\ [][NextMarked]_vars

\* the engine under weak fairness: the worker's event loop keeps running the
\* coroutine, every awaited sleep returns
FairSpec == Init /\ [][Next]_vars /\ WF_vars(Runner \/ Speak)

\* Audio.speak with this controller on the Command Channel: the stop branch
\* and the two except paths of the seek branch are left out, no command the
\* controller puts reaches them (ControllerCommands)
SpeakUnderUI ==
    \/ Synthesize \/ SynthesizeFails \/ LoadPlay \/ LoadFails \/ LoopTick
    \/ CmdNone \/ CmdPause \/ CmdResume \/ CmdSeek \/ CmdIgnored
    \/ CheckPaused \/ CheckBusy \/ CheckEnded \/ Teardown

Worker == WorkerMain \/ WorkerExit \/ Runner \/ SpeakUnderUI
Controller ==
    \/ start_process \/ stop_process \/ on_close \/ toggle_pause_resume
    \/ on_slider_press \/ on_slider_release \/ update_UI_status \/ check_log_queue

NextUI == Controller \/ Worker

SpecUI == InitUI /\ [][NextUI]_vars

NextTools == register_tool \/ unregister_tool \/ get_tool_call \/ is_tool_registered_call

SpecTools == InitTools /\ [][NextTools]_vars
====
